---- MODULE Spec2Model ----
(***************************************************************************)
(* automatecm: the custom-command store (ConfigManager), the command       *)
(* registry (CommandRegistry), the add/delete flows of the front end       *)
(* (AutomateCM), the distro classifier (detect_distro) and the executor    *)
(* (FastExecutor), modelled from src/automatecm/main.py.                   *)
(*                                                                         *)
(* A Command is a record with the six dataclass fields.  The persisted     *)
(* file is either missing, unparseable text, or a JSON list of objects;    *)
(* an object is a record over whatever keys it carries.                    *)
(***************************************************************************)
EXTENDS Integers, Sequences, FiniteSets, TLC

VARIABLES
    file,       \* content of ~/.config/automatecm/custom_commands.json
    commands,   \* CommandRegistry.commands of the running process
    alive,      \* whether the process is running (FALSE after it was killed)
    last,       \* the last call: operation, arguments, result, file before it
    os,         \* what /etc/os-release gives detect_distro: ID and ID_LIKE, or unreadable
    family,     \* AutomateCM.family, set by detect_distro at construction
    procs       \* the calls other processes have in progress on the same file

vars == <<file, commands, alive, last, os, family, procs>>

\* what the store and the registry leave alone
host == <<os, family, procs>>

----------------------------------------------------------------------------
(* Bounds of the model *)

\* longest JSON list the file holds when the process is constructed
MaxInitLen == 2
\* most records add_custom is let to grow the file to
MaxFile == 2
\* most entries the registry is let to hold after the built-ins
MaxSuffix == 3

----------------------------------------------------------------------------
(* Values *)

\* Python's None (the default of Command.alias, and a function's "no result")
None == "None"

\* DistroFamily
DistroFamily == {"debian", "redhat", "arch", "suse", "unknown"}

\* the fields of the Command dataclass
Fields == {"name", "description", "commands", "requires_root", "is_custom", "alias"}

\* the fields of Command that have no default
RequiredFields == {"name", "description", "commands"}

\* Command(name, desc, cmds, root): positional construction, defaults for the rest
BuiltinCommand(name, desc, cmds, root) ==
    [name |-> name, description |-> desc, commands |-> cmds,
     requires_root |-> root, is_custom |-> FALSE, alias |-> None]

\* the key set of every built-in's commands mapping
BuiltinFamilies == {"debian", "redhat", "arch", "suse"}

\* a mapping that has the same text for the four built-in families
Same4(text) == [f \in BuiltinFamilies |-> text]

\* a mapping with one text per built-in family
Per4(deb, red, arc, sus) ==
    [f \in BuiltinFamilies |->
        CASE f = "debian" -> deb
          [] f = "redhat" -> red
          [] f = "arch"   -> arc
          [] f = "suse"   -> sus]

\* CommandRegistry._register_builtin: the ten built-ins, in order
Builtins ==
    << BuiltinCommand("System Update", "Update system packages",
          Per4("sudo apt update && sudo apt upgrade -y",
               "sudo dnf update -y",
               "sudo pacman -Syu --noconfirm",
               "sudo zypper update -y"), TRUE),
       BuiltinCommand("Clean Cache", "Clean package cache",
          Per4("sudo apt clean && sudo apt autoremove -y",
               "sudo dnf clean all && sudo dnf autoremove -y",
               "sudo pacman -Sc --noconfirm",
               "sudo zypper clean -a"), TRUE),
       BuiltinCommand("System Info", "Display system information",
          Per4("neofetch || (sudo apt install -y neofetch && neofetch)",
               "neofetch || (sudo dnf install -y neofetch && neofetch)",
               "neofetch || (sudo pacman -S --noconfirm neofetch && neofetch)",
               "neofetch || (sudo zypper install -y neofetch && neofetch)"), FALSE),
       BuiltinCommand("Disk Usage", "Analyze disk usage",
          Same4("df -h && echo '\n--- Top 10 Largest Directories ---' && sudo du -h / 2>/dev/null | sort -rh | head -10"),
          FALSE),
       BuiltinCommand("Network Info", "Show network details",
          Same4("ip addr show && echo '\n--- Gateway ---' && ip route | grep default"),
          FALSE),
       BuiltinCommand("Running Services", "List active services",
          Same4("systemctl list-units --type=service --state=running"), FALSE),
       BuiltinCommand("Memory Usage", "Display memory info",
          Same4("free -h && echo '\n--- Top 10 Memory Consumers ---' && ps aux --sort=-%mem | head -11"),
          FALSE),
       BuiltinCommand("Failed Services", "Check failed services",
          Same4("systemctl --failed"), FALSE),
       BuiltinCommand("System Logs", "View recent error logs",
          Same4("journalctl -p err -b --no-pager | tail -50"), FALSE),
       BuiltinCommand("Security Updates", "Install security patches",
          Per4("sudo apt update && sudo unattended-upgrade -d",
               "sudo dnf update --security -y",
               "sudo pacman -Syu --noconfirm",
               "sudo zypper patch -y"), TRUE) >>

----------------------------------------------------------------------------
(* detect_distro *)

\* str.lower() on one character
LowerChar(c) ==
    CASE c = "A" -> "a" [] c = "B" -> "b" [] c = "C" -> "c" [] c = "D" -> "d"
      [] c = "E" -> "e" [] c = "F" -> "f" [] c = "G" -> "g" [] c = "H" -> "h"
      [] c = "I" -> "i" [] c = "J" -> "j" [] c = "K" -> "k" [] c = "L" -> "l"
      [] c = "M" -> "m" [] c = "N" -> "n" [] c = "O" -> "o" [] c = "P" -> "p"
      [] c = "Q" -> "q" [] c = "R" -> "r" [] c = "S" -> "s" [] c = "T" -> "t"
      [] c = "U" -> "u" [] c = "V" -> "v" [] c = "W" -> "w" [] c = "X" -> "x"
      [] c = "Y" -> "y" [] c = "Z" -> "z" [] OTHER -> c

\* str.lower()
RECURSIVE Lower(_)
Lower(s) ==
    IF Len(s) = 0 THEN ""
    ELSE LowerChar(SubSeq(s, 1, 1)) \o Lower(SubSeq(s, 2, Len(s)))

\* `sub in s` on strings
Contains(sub, s) ==
    \E i \in 0..(Len(s) - Len(sub)) : SubSeq(s, i + 1, i + Len(sub)) = sub

\* any(x in check for x in keys)
AnyIn(keys, check) == \E x \in keys : Contains(x, check)

\* the four keyword lists of detect_distro
DebianKeys == {"ubuntu", "debian", "mint", "pop", "kali"}
RedhatKeys == {"rhel", "fedora", "centos", "rocky", "alma"}
ArchKeys   == {"arch", "manjaro", "endeavour"}
SuseKeys   == {"suse", "opensuse"}

\* /etc/os-release cannot be opened or read
Unreadable == [kind |-> "unreadable", id |-> "", like |-> ""]

\* the parsed data: data.get('ID', '') and data.get('ID_LIKE', '')
OsRelease(id, like) == [kind |-> "data", id |-> id, like |-> like]

\* check = f"{distro_id} {distro_like}", both lower-cased
CheckString(o) == Lower(o.id) \o " " \o Lower(o.like)

\* detect_distro with the arch test moved in front of the debian test
DetectFamilyArchFirst(o) ==
    IF o.kind = "unreadable" THEN "unknown"
    ELSE LET check == CheckString(o)
         IN  IF AnyIn(ArchKeys, check) THEN "arch"
             ELSE IF AnyIn(DebianKeys, check) THEN "debian"
             ELSE IF AnyIn(RedhatKeys, check) THEN "redhat"
             ELSE IF AnyIn(SuseKeys, check) THEN "suse"
             ELSE "unknown"

\* detect_distro()[0]: the if/elif chain, 'unknown' from the bare except
DetectFamily(o) ==
    IF o.kind = "unreadable" THEN "unknown"
    ELSE LET check == CheckString(o)
         IN  IF AnyIn(DebianKeys, check) THEN "debian"
             ELSE IF AnyIn(RedhatKeys, check) THEN "redhat"
             ELSE IF AnyIn(ArchKeys, check) THEN "arch"
             ELSE IF AnyIn(SuseKeys, check) THEN "suse"
             ELSE "unknown"

----------------------------------------------------------------------------
(* Sequences *)

\* [c for c in s if c.is_custom] (keepCustom) or [c for c in s if not c.is_custom]
RECURSIVE SelectCmds(_, _)
SelectCmds(s, keepCustom) ==
    IF s = <<>> THEN <<>>
    ELSE LET rest == SelectCmds(Tail(s), keepCustom)
         IN  IF Head(s).is_custom = keepCustom THEN <<Head(s)>> \o rest ELSE rest

\* [c for c in s if c.alias != alias]
RECURSIVE WithoutAlias(_, _)
WithoutAlias(s, alias) ==
    IF s = <<>> THEN <<>>
    ELSE LET rest == WithoutAlias(Tail(s), alias)
         IN  IF Head(s).alias # alias THEN <<Head(s)>> \o rest ELSE rest

\* the aliases of the entries of s
AliasesOf(s) == {s[i].alias : i \in 1..Len(s)}

----------------------------------------------------------------------------
(* The persisted file *)

\* the file does not exist
Missing == [kind |-> "missing", data |-> <<>>]

\* text json.load rejects: empty, truncated, or otherwise not JSON
Garbage == [kind |-> "garbage", data |-> <<>>]

\* a JSON list of objects
Json(objs) == [kind |-> "json", data |-> objs]

\* whether Command(**obj) constructs: no unexpected key, no required one missing
Constructs(obj) == DOMAIN obj \subseteq Fields /\ RequiredFields \subseteq DOMAIN obj

\* Command(**obj) taking the default alias whatever obj holds
CommandFromDictNoAlias(obj) ==
    [name          |-> obj.name,
     description   |-> obj.description,
     commands      |-> obj.commands,
     requires_root |-> IF "requires_root" \in DOMAIN obj THEN obj.requires_root ELSE FALSE,
     is_custom     |-> IF "is_custom" \in DOMAIN obj THEN obj.is_custom ELSE FALSE,
     alias         |-> None]

\* Command(**obj): the dataclass defaults fill the keys obj lacks
CommandFromDict(obj) ==
    [name          |-> obj.name,
     description   |-> obj.description,
     commands      |-> obj.commands,
     requires_root |-> IF "requires_root" \in DOMAIN obj THEN obj.requires_root ELSE FALSE,
     is_custom     |-> IF "is_custom" \in DOMAIN obj THEN obj.is_custom ELSE FALSE,
     alias         |-> IF "alias" \in DOMAIN obj THEN obj.alias ELSE None]

\* dataclasses.asdict(cmd): an object with all six keys
AsDict(cmd) ==
    [name          |-> cmd.name,
     description   |-> cmd.description,
     commands      |-> cmd.commands,
     requires_root |-> cmd.requires_root,
     is_custom     |-> cmd.is_custom,
     alias         |-> cmd.alias]

\* ConfigManager.load_custom: [] when the file is missing, json.load raises,
\* or any Command(**cmd) raises; else one Command per object, in file order
LoadCustom(f) ==
    IF f.kind # "json" THEN <<>>
    ELSE IF \E i \in 1..Len(f.data) : ~Constructs(f.data[i]) THEN <<>>
    ELSE [i \in 1..Len(f.data) |-> CommandFromDict(f.data[i])]

\* what the environment does to the write of save_custom
IoOutcomes == {"ok", "open_error", "write_error", "crash_partial", "crash_flushed"}

\* the outcomes in which the process is killed inside save_custom
Crashes == {"crash_partial", "crash_flushed"}

\* the outcomes in which save_custom's write raises (and the except prints)
WriteFailures == {"open_error", "write_error"}

\* the list save_custom serialises: [asdict(cmd) for cmd in cmds if cmd.is_custom]
SaveData(cmds) ==
    LET kept == SelectCmds(cmds, TRUE)
    IN  [i \in 1..Len(kept) |-> AsDict(kept[i])]

\* ConfigManager.save_custom: the file after the call.  open(..., 'w') truncates
\* the file in place before json.dump writes into it, so a write that raises
\* part-way (disk full) and a process killed part-way both leave a prefix of
\* the new text, which is never a complete JSON list; a process killed after
\* the last byte reached the file leaves the new text.  A failing open (no
\* permission) leaves the file as it was.
SaveCustom(f, cmds, io) ==
    CASE io = "ok"            -> Json(SaveData(cmds))
      [] io = "open_error"    -> f
      [] io = "write_error"   -> Garbage
      [] io = "crash_partial" -> Garbage
      [] io = "crash_flushed" -> Json(SaveData(cmds))

----------------------------------------------------------------------------
(* ConfigManager *)

\* new_cmd with the text under the four families of the built-ins only
NewCommandFourFamilies(alias, name, desc, cmd, root) ==
    [name          |-> name,
     description   |-> desc,
     commands      |-> [f \in BuiltinFamilies |-> cmd],
     requires_root |-> root,
     is_custom     |-> TRUE,
     alias         |-> alias]

\* add_custom's new_cmd: the same text under every family, is_custom set
NewCommand(alias, name, desc, cmd, root) ==
    [name          |-> name,
     description   |-> desc,
     commands      |-> [f \in DistroFamily |-> cmd],
     requires_root |-> root,
     is_custom     |-> TRUE,
     alias         |-> alias]

\* add_custom without its test for an existing alias
AliasExistsNever(cmds, alias) == FALSE

\* add_custom testing the first loaded command only
AliasExistsFirstOnly(cmds, alias) == cmds # <<>> /\ cmds[1].alias = alias

\* add_custom's test: any(c.alias == alias for c in commands)
AliasExists(cmds, alias) == \E i \in 1..Len(cmds) : cmds[i].alias = alias

\* remove_custom without its test for an unmatched alias
NothingRemovedNever(cmds, filtered) == FALSE

\* remove_custom's test: len(commands) == len(filtered)
NothingRemoved(cmds, filtered) == Len(cmds) = Len(filtered)

\* what a call that reaches save_custom returns: save_custom swallows the
\* exception of a failed write, so the caller goes on to `return True`
AfterSave(io) == IF io \in Crashes THEN "killed" ELSE "True"

\* whether add_custom(alias) on file f gets as far as save_custom
AddSaves(f, alias) == ~AliasExists(LoadCustom(f), alias)

\* whether remove_custom(alias) on file f gets as far as save_custom
RemoveSaves(f, alias) ==
    ~NothingRemoved(LoadCustom(f), WithoutAlias(LoadCustom(f), alias))

\* what the environment can do to a call: nothing when the call writes nothing
OutcomesOf(saves) == IF saves THEN IoOutcomes ELSE {"none"}

\* ConfigManager.add_custom on file f: the file after it, what it returned
\* ("True", "False", or "killed" when the process died inside the write), and
\* what happened to the write ("none" when there was none)
ConfigAdd(f, alias, name, desc, cmd, root, io) ==
    LET cmds == LoadCustom(f)
    IN  IF AliasExists(cmds, alias)
        THEN [file |-> f, ret |-> "False", io |-> "none"]
        ELSE [file |-> SaveCustom(f, Append(cmds, NewCommand(alias, name, desc, cmd, root)), io),
              ret  |-> AfterSave(io),
              io   |-> io]

\* ConfigManager.remove_custom on file f
ConfigRemove(f, alias, io) ==
    LET cmds     == LoadCustom(f)
        filtered == WithoutAlias(cmds, alias)
    IN  IF NothingRemoved(cmds, filtered)
        THEN [file |-> f, ret |-> "False", io |-> "none"]
        ELSE [file |-> SaveCustom(f, filtered, io),
              ret  |-> AfterSave(io),
              io   |-> io]

----------------------------------------------------------------------------
(* CommandRegistry *)

\* CommandRegistry.__init__: _register_builtin, then _load_custom
NewRegistry(f) == Builtins \o LoadCustom(f)

\* reload putting the loaded commands in front of the kept ones
ReloadCustomFirst(cmds, f) == LoadCustom(f) \o SelectCmds(cmds, FALSE)

\* CommandRegistry.reload: keep what is not custom, then _load_custom
ReloadCommands(cmds, f) == SelectCmds(cmds, FALSE) \o LoadCustom(f)

\* the registry's custom entries: [c for c in self.registry.commands if c.is_custom]
Customs(cmds) == SelectCmds(cmds, TRUE)

----------------------------------------------------------------------------
(* Inputs *)

\* aliases a caller passes ("" is what the front end refuses, add_custom does not)
AliasInputs == {"a", "b"}
NameInputs  == {"n"}
DescInputs  == {"d"}
CmdInputs   == {"echo"}
RootInputs  == {FALSE}

\* what the user may type at the front end's prompts, after strip()
UiAliasInputs == {"a", "b", ""}
UiNameInputs == {"n", ""}
UiDescInputs == {"d", ""}
UiCmdInputs  == {"echo", ""}

\* a record add_custom wrote earlier
Written(alias) == AsDict(NewCommand(alias, "n", "d", "echo", FALSE))

\* objects a file may hold that the program did not write itself
HandEdited ==
    { \* is_custom false
      [name |-> "n", description |-> "d", commands |-> Same4("echo"),
       requires_root |-> FALSE, is_custom |-> FALSE, alias |-> "b"],
      \* only the required keys
      [name |-> "n", description |-> "d", commands |-> Same4("echo")],
      \* a required key missing
      [description |-> "d", commands |-> Same4("echo"), is_custom |-> TRUE, alias |-> "a"] }

InitObjects == {Written("a"), Written("b")} \cup HandEdited

\* the sequences over S of length at most n
SeqsUpTo(S, n) == UNION {[1..k -> S] : k \in 0..n}

\* every content the file may have when the process starts
InitFiles == {Missing, Garbage} \cup {Json(objs) : objs \in SeqsUpTo(InitObjects, MaxInitLen)}

\* placeholder for the entry of a call that builds none
NoEntry == BuiltinCommand("", "", Same4(""), FALSE)

\* the record of a call
Call(op, alias, entry, r, before) ==
    [op |-> op, alias |-> alias, entry |-> entry, io |-> r.io, ret |-> r.ret,
     before |-> before]

\* the result of a call that does not reach ConfigManager
NoResult(f) == [file |-> f, ret |-> None, io |-> "none"]

----------------------------------------------------------------------------
(* State machine *)

\* the host of the store's and the registry's runs: ID=ubuntu, ID_LIKE=debian
HostOsRelease == OsRelease("ubuntu", "debian")

\* no other process is calling
NoProcs == <<>>

\* main(): AutomateCM() constructs the registry from whatever the file holds
Init ==
    /\ file \in InitFiles
    /\ commands = NewRegistry(file)
    /\ alive = TRUE
    /\ last = Call("init", None, NoEntry, NoResult(file), file)
    /\ os = HostOsRelease
    /\ family = DetectFamily(os)
    /\ procs = NoProcs

\* ConfigManager.add_custom(alias, name, desc, cmd, root)
AddCustom ==
    \E alias \in AliasInputs, name \in NameInputs, desc \in DescInputs,
       cmd \in CmdInputs, root \in RootInputs :
      \E io \in OutcomesOf(AddSaves(file, alias)) :
        LET r == ConfigAdd(file, alias, name, desc, cmd, root, io)
        IN  /\ alive
            /\ Len(LoadCustom(r.file)) <= MaxFile
            /\ file' = r.file
            /\ alive' = (r.ret # "killed")
            /\ last' = Call("add", alias, NewCommand(alias, name, desc, cmd, root), r, file)
            /\ UNCHANGED <<commands, host>>

\* ConfigManager.remove_custom(alias)
RemoveCustom ==
    \E alias \in AliasInputs :
      \E io \in OutcomesOf(RemoveSaves(file, alias)) :
        LET r == ConfigRemove(file, alias, io)
        IN  /\ alive
            /\ file' = r.file
            /\ alive' = (r.ret # "killed")
            /\ last' = Call("remove", alias, NoEntry, r, file)
            /\ UNCHANGED <<commands, host>>

\* CommandRegistry.reload()
Reload ==
    /\ alive
    /\ Len(ReloadCommands(commands, file)) <= Len(Builtins) + MaxSuffix
    /\ commands' = ReloadCommands(commands, file)
    /\ last' = Call("reload", None, NoEntry, NoResult(file), file)
    /\ UNCHANGED <<file, alive, host>>

\* AutomateCM.add_custom's early returns: `if not alias`, `if not (name and desc and cmd)`
UiRefuses(alias, name, desc, cmd) == alias = "" \/ name = "" \/ desc = "" \/ cmd = ""

\* AutomateCM.delete_custom: whether the typed number and the confirmation pick an entry
UiPicks(customs, idx, confirm) ==
    customs # <<>> /\ 0 <= idx /\ idx < Len(customs) /\ confirm

\* AutomateCM.add_custom: the prompts, config.add_custom, reload on True
UiAddCustom ==
    \E alias \in UiAliasInputs, name \in UiNameInputs, desc \in UiDescInputs,
       cmd \in UiCmdInputs, root \in RootInputs :
      \E io \in OutcomesOf(~UiRefuses(alias, name, desc, cmd) /\ AddSaves(file, alias)) :
        LET refused == UiRefuses(alias, name, desc, cmd)
            r == IF refused THEN NoResult(file)
                 ELSE ConfigAdd(file, alias, name, desc, cmd, root, io)
            after == IF r.ret = "True" THEN ReloadCommands(commands, r.file) ELSE commands
        IN  /\ alive
            /\ Len(LoadCustom(r.file)) <= MaxFile
            /\ Len(after) <= Len(Builtins) + MaxSuffix
            /\ file' = r.file
            /\ commands' = after
            /\ alive' = (r.ret # "killed")
            /\ last' = Call("ui_add", alias, NewCommand(alias, name, desc, cmd, root), r, file)
            /\ UNCHANGED host

\* AutomateCM.delete_custom: pick one of the registry's custom entries,
\* confirm, config.remove_custom, reload on True
UiDeleteCustom ==
    \E idx \in -1..MaxSuffix, confirm \in BOOLEAN :
      \E io \in OutcomesOf(UiPicks(Customs(commands), idx, confirm)
                           /\ RemoveSaves(file, Customs(commands)[idx + 1].alias)) :
        LET customs == Customs(commands)
            chosen  == UiPicks(customs, idx, confirm)
            alias   == IF chosen THEN customs[idx + 1].alias ELSE None
            r == IF chosen THEN ConfigRemove(file, alias, io) ELSE NoResult(file)
            after == IF r.ret = "True" THEN ReloadCommands(commands, r.file) ELSE commands
        IN  /\ alive
            /\ Len(after) <= Len(Builtins) + MaxSuffix
            /\ file' = r.file
            /\ commands' = after
            /\ alive' = (r.ret # "killed")
            /\ last' = Call("ui_delete", alias, NoEntry, r, file)
            /\ UNCHANGED host

\* main(): the user starts the program; AutomateCM() detects the family and
\* constructs the registry
Start ==
    /\ ~alive
    /\ family' = DetectFamily(os)
    /\ commands' = NewRegistry(file)
    /\ alive' = TRUE
    /\ last' = Call("start", None, NoEntry, NoResult(file), file)
    /\ UNCHANGED <<file, os, procs>>

Next ==
    \/ AddCustom
    \/ RemoveCustom
    \/ Reload
    \/ UiAddCustom
    \/ UiDeleteCustom
    \/ Start

Spec == Init /\ [][Next]_vars

\* the same program, started on a file whose custom entries have distinct aliases
InitDistinct ==
    /\ Init
    /\ \A i, j \in 1..Len(Customs(LoadCustom(file))) :
          i # j => Customs(LoadCustom(file))[i].alias # Customs(LoadCustom(file))[j].alias

SpecDistinct == InitDistinct /\ [][Next]_vars

----------------------------------------------------------------------------
(* Properties *)

\* no two entries of s carry the same alias
DistinctAliases(s) == \A i, j \in 1..Len(s) : i # j => s[i].alias # s[j].alias

\* the last call was a ConfigManager.add_custom (direct, or from the front end)
AddCalled == last.op = "add" \/ (last.op = "ui_add" /\ last.ret # None)

\* the last call was a ConfigManager.remove_custom (direct, or from the front end)
RemoveCalled == last.op = "remove" \/ (last.op = "ui_delete" /\ last.ret # None)

\* what the last call loaded
LoadedBefore == LoadCustom(last.before)

\* C1: started on custom entries with pairwise distinct aliases, after any
\* sequence of add_custom, remove_custom and reload the custom entries of the
\* persisted set, and those of the registry, have pairwise distinct aliases.
C1_AliasesDistinct ==
    /\ DistinctAliases(Customs(LoadCustom(file)))
    /\ DistinctAliases(Customs(commands))

\* an add went through on a non-empty set and the registry shows both entries
C1_Witness ==
    /\ last.op = "ui_add" /\ last.ret = "True" /\ last.io = "ok"
    /\ Len(Customs(LoadedBefore)) = 1
    /\ Len(Customs(LoadCustom(file))) = 2
    /\ Len(Customs(commands)) = 2

\* C2: add_custom with an alias the persisted set already holds returns False
\* and writes nothing: the file, and so what load_custom returns, is as before.
C2_DuplicateAddFails ==
    (AddCalled /\ last.alias \in AliasesOf(LoadedBefore))
        => /\ last.ret = "False"
           /\ last.io = "none"
           /\ file = last.before
           /\ LoadCustom(file) = LoadedBefore

\* add_custom was called with the alias of the second of two persisted entries
C2_Witness ==
    /\ last.op = "add"
    /\ Len(LoadedBefore) = 2
    /\ LoadedBefore[2].alias = last.alias
    /\ LoadedBefore[1].alias # last.alias
    /\ last.ret = "False"

\* C3: remove_custom with an alias the persisted set holds returns True, and
\* afterwards load_custom returns the entries it returned before, without the
\* ones carrying that alias, unchanged and in the same order.
C3_RemovePresent ==
    (last.op = "remove" /\ alive /\ last.alias \in AliasesOf(LoadedBefore))
        => /\ last.ret = "True"
           /\ LoadCustom(file) = WithoutAlias(LoadedBefore, last.alias)

\* C4: remove_custom with an alias no persisted entry carries returns False
\* and writes nothing.
C4_RemoveAbsentFails ==
    (RemoveCalled /\ last.alias \notin AliasesOf(LoadedBefore))
        => /\ last.ret = "False"
           /\ last.io = "none"
           /\ file = last.before

\* remove_custom was called on a non-empty set with an alias not in it
C4_Witness ==
    /\ last.op = "remove"
    /\ LoadedBefore # <<>>
    /\ last.alias \notin AliasesOf(LoadedBefore)
    /\ last.ret = "False"

\* C5: when the write inside add_custom or remove_custom fails, the call
\* returns False, and the process goes on.
C5_WriteFailureReported ==
    last.io \in WriteFailures => (last.ret = "False" /\ alive)

\* the content the last add_custom or remove_custom set out to write
NewContent ==
    IF last.op \in {"add", "ui_add"}
    THEN Json(SaveData(Append(LoadedBefore, last.entry)))
    ELSE Json(SaveData(WithoutAlias(LoadedBefore, last.alias)))

\* C6: when the process is killed during a save, the file holds either the
\* complete previous content or the complete new content.
C6_SaveAtomic ==
    last.io \in Crashes => (file = last.before \/ file = NewContent)

\* C7: the registry always starts with the ten built-ins, in their order.
C7_BuiltinPrefix ==
    /\ Len(Builtins) = 10
    /\ Len(commands) >= Len(Builtins)
    /\ SubSeq(commands, 1, Len(Builtins)) = Builtins

\* a reload appended loaded commands behind the built-ins
C7_Witness ==
    /\ last.op = "reload"
    /\ LoadCustom(file) # <<>>
    /\ Len(commands) > Len(Builtins)

\* C8: after construction and after every reload the registry is the ten
\* built-ins followed by what load_custom returns for the file.
C8_CatalogIsBuiltinsThenLoad ==
    last.op \in {"init", "start", "reload"} => commands = Builtins \o LoadCustom(file)

\* C9: after the front end's add_custom got True and reloaded, the registry's
\* custom entries are the previously persisted custom entries, in order, then
\* the new entry, and the built-in prefix is unchanged.
C9_AddThenReload ==
    (last.op = "ui_add" /\ last.ret = "True")
        => /\ Customs(commands) = Customs(LoadedBefore) \o <<last.entry>>
           /\ SubSeq(commands, 1, Len(Builtins)) = Builtins

\* C10: every Command load_custom returns has is_custom set.
C10_LoadedAreCustom ==
    \A i \in 1..Len(LoadCustom(file)) : LoadCustom(file)[i].is_custom

\* C11: a malformed file, or a file with a record that lacks any of the six
\* fields, makes load_custom return the empty list.
C11_MissingFieldDegrades ==
    (\/ file.kind = "garbage"
     \/ /\ file.kind = "json"
        /\ \E i \in 1..Len(file.data) : ~(Fields \subseteq DOMAIN file.data[i]))
        => LoadCustom(file) = <<>>

----------------------------------------------------------------------------
(* The classifier on any host *)

\* values of ID and ID_LIKE a host's os-release may give
IdInputs == {"ubuntu", "Pop", "linuxmint", "fedora", "arch", "opensuse-leap",
             "gentoo", "po", ""}
LikeInputs == {"", "debian", "rhel fedora", "arch", "suse", "p", "ubuntu debian"}

\* every os-release the classifier is run on
OsInputs == {Unreadable} \cup {OsRelease(id, like) : id \in IdInputs, like \in LikeInputs}

\* before main() runs: no process, nothing detected, no file yet
InitOff ==
    /\ os \in OsInputs
    /\ family = None
    /\ file = Missing
    /\ commands = <<>>
    /\ alive = FALSE
    /\ last = Call("off", None, NoEntry, NoResult(file), file)
    /\ procs = NoProcs

NextDistro == Start

SpecDistro == InitOff /\ [][NextDistro]_vars

\* the keyword sets in the claim's priority order
FamilyPriority ==
    << [tag |-> "debian", keys |-> DebianKeys],
       [tag |-> "redhat", keys |-> RedhatKeys],
       [tag |-> "arch",   keys |-> ArchKeys],
       [tag |-> "suse",   keys |-> SuseKeys] >>

\* a keyword of keys is contained in the lower-cased ID or ID_LIKE of o
KeywordIn(keys, o) ==
    \E k \in keys : Contains(k, Lower(o.id)) \/ Contains(k, Lower(o.like))

\* the families whose keyword set matches o, as positions in the priority order
MatchingFamilies(o) ==
    {i \in 1..Len(FamilyPriority) : KeywordIn(FamilyPriority[i].keys, o)}

\* C13: the family is the first one in the order debian, redhat, arch, suse
\* with a keyword contained in the lower-cased ID/ID_LIKE, unknown when there
\* is none or the data is unavailable; a debian keyword always gives debian.
C13_FirstMatchWins ==
    alive =>
        /\ (os.kind = "unreadable" \/ MatchingFamilies(os) = {}) => family = "unknown"
        /\ (os.kind = "data" /\ MatchingFamilies(os) # {}) =>
              \E i \in MatchingFamilies(os) :
                 /\ \A j \in MatchingFamilies(os) : i <= j
                 /\ family = FamilyPriority[i].tag
        /\ (os.kind = "data" /\ KeywordIn(DebianKeys, os)) => family = "debian"

\* an arch ID with a debian ID_LIKE was classified debian
C13_Witness ==
    /\ alive
    /\ os = OsRelease("arch", "ubuntu debian")
    /\ family = "debian"

----------------------------------------------------------------------------
(* Command.get_cmd, CommandRegistry.get, FastExecutor.execute *)

\* Command.get_cmd(family): self.commands.get(family)
GetCmd(cmd, fam) == IF fam \in DOMAIN cmd.commands THEN cmd.commands[fam] ELSE None

\* Python's list indexing cmds[idx]: a negative index counts from the end,
\* an index outside -len..len-1 raises IndexError
PyIndex(cmds, idx) ==
    IF 0 <= idx /\ idx < Len(cmds) THEN [ret |-> "found", entry |-> cmds[idx + 1]]
    ELSE IF idx < 0 /\ -Len(cmds) <= idx
         THEN [ret |-> "found", entry |-> cmds[Len(cmds) + idx + 1]]
    ELSE [ret |-> "IndexError", entry |-> NoEntry]

\* get testing the upper end only
RegistryGetNoLowerBound(cmds, idx) ==
    IF idx < Len(cmds) THEN PyIndex(cmds, idx) ELSE [ret |-> None, entry |-> NoEntry]

\* CommandRegistry.get(idx)
RegistryGet(cmds, idx) ==
    IF 0 <= idx /\ idx < Len(cmds) THEN PyIndex(cmds, idx) ELSE [ret |-> None, entry |-> NoEntry]

\* execute's test `if not command`: None and the empty string are both falsy
NotCommand(command) == command = None \/ command = ""

\* FastExecutor.execute(cmd) with the family fam; rc is the exit code of the
\* spawned bash.  reported is what the user is told first, spawned whether
\* subprocess.run was called, ret the value returned.
ExecutorRun(cmd, fam, rc) ==
    IF NotCommand(GetCmd(cmd, fam))
    THEN [reported |-> "unsupported", spawned |-> FALSE, ret |-> "False"]
    ELSE [reported |-> "executing", spawned |-> TRUE,
          ret |-> IF rc = 0 THEN "True" ELSE "False"]

----------------------------------------------------------------------------
(* The classes called directly, with any arguments *)

\* arguments a caller of ConfigManager.add_custom may pass
AnyAliasInputs == {"a", ""}
AnyCmdInputs   == {"ls", ""}

\* hosts: one of a known family and one that matches none
HostSamples == { OsRelease("ubuntu", "debian"), OsRelease("gentoo", "") }

\* files the process is started on: none, unparseable, or one hand-edited
\* object that Command(**cmd) accepts
ApiFiles == {Missing, Garbage} \cup {Json(<<o>>) : o \in {h \in HandEdited : Constructs(h)}}

\* exit codes of the spawned command
ExitCodes == {0, 1}

InitApi ==
    /\ file \in ApiFiles
    /\ commands = NewRegistry(file)
    /\ alive = TRUE
    /\ last = Call("init", None, NoEntry, NoResult(file), file)
    /\ os \in HostSamples
    /\ family = DetectFamily(os)
    /\ procs = NoProcs

\* ConfigManager.add_custom(alias, name, desc, cmd, root), any strings
AddCustomAny ==
    \E alias \in AnyAliasInputs, name \in NameInputs, desc \in DescInputs,
       cmd \in AnyCmdInputs, root \in RootInputs :
      \E io \in OutcomesOf(AddSaves(file, alias)) :
        LET r == ConfigAdd(file, alias, name, desc, cmd, root, io)
        IN  /\ alive
            /\ Len(LoadCustom(r.file)) <= MaxFile
            /\ file' = r.file
            /\ alive' = (r.ret # "killed")
            /\ last' = [op |-> "add", alias |-> alias,
                        entry |-> NewCommand(alias, name, desc, cmd, root),
                        io |-> r.io, ret |-> r.ret, before |-> file, cmd |-> cmd]
            /\ UNCHANGED <<commands, host>>

\* CommandRegistry.get(idx), any integer around the registry's length
Get ==
    \E idx \in (-Len(commands) - 2)..(Len(commands) + 1) :
        LET r == RegistryGet(commands, idx)
        IN  /\ alive
            /\ last' = [op |-> "get", alias |-> None, entry |-> r.entry,
                        io |-> "none", ret |-> r.ret, before |-> file, idx |-> idx]
            /\ UNCHANGED <<file, commands, alive, host>>

\* FastExecutor.execute(cmd) on an entry of the registry
Execute ==
    \E i \in 1..Len(commands), rc \in ExitCodes :
        LET r == ExecutorRun(commands[i], family, rc)
        IN  /\ alive
            /\ last' = [op |-> "execute", alias |-> None, entry |-> commands[i],
                        io |-> "none", ret |-> r.ret, before |-> file,
                        reported |-> r.reported, spawned |-> r.spawned]
            /\ UNCHANGED <<file, commands, alive, host>>

\* save_custom(load_custom()), the write succeeding
RoundTrip ==
    /\ alive
    /\ file' = SaveCustom(file, LoadCustom(file), "ok")
    /\ last' = Call("roundtrip", None, NoEntry, [ret |-> None, io |-> "ok"], file)
    /\ UNCHANGED <<commands, alive, host>>

NextApi ==
    \/ AddCustomAny
    \/ Reload
    \/ Get
    \/ Execute
    \/ RoundTrip

SpecApi == InitApi /\ [][NextApi]_vars

----------------------------------------------------------------------------
(* Properties of the classes called directly *)

\* C12: get(idx) returns the entry at position idx when 0 <= idx < length and
\* None for every other index, the negative ones included; it never raises.
C12_GetInRangeOrNone ==
    last.op = "get" =>
        IF 0 <= last.idx /\ last.idx < Len(commands)
        THEN last.ret = "found" /\ last.entry = commands[last.idx + 1]
        ELSE last.ret = None

C12_Witness ==
    /\ last.op = "get"
    /\ last.idx = -1
    /\ last.ret = None
    /\ Len(commands) > Len(Builtins)

SavedForm(f) ==
    /\ f.kind = "json"
    /\ \A i \in 1..Len(f.data) : DOMAIN f.data[i] = Fields /\ f.data[i].is_custom

C16_UnsupportedIffAbsent ==
    last.op = "execute" =>
        (last.reported = "unsupported" <=> family \notin DOMAIN last.entry.commands)

\* C17: no persisted user-defined entry has the empty alias.
C17_NoEmptyAlias ==
    \A i \in 1..Len(LoadCustom(file)) :
        LoadCustom(file)[i].is_custom => LoadCustom(file)[i].alias # ""

\* an entry as add_custom builds it from some arguments
CreatedByAdd(e) ==
    \E alias \in AnyAliasInputs \cup AliasInputs, name \in NameInputs, desc \in DescInputs,
       cmd \in AnyCmdInputs \cup CmdInputs, root \in RootInputs :
        e = NewCommand(alias, name, desc, cmd, root)

\* whether e is one of the ten built-ins
IsBuiltin(e) == \E i \in 1..Len(Builtins) : Builtins[i] = e

\* C18: execute spawns nothing and returns False for a command whose mapping
\* lacks the detected family; on an unknown family no built-in is executed
\* while every command created by add_custom is.
C18_ExecutorGate ==
    last.op = "execute" =>
        /\ family \notin DOMAIN last.entry.commands => ~last.spawned /\ last.ret = "False"
        /\ (family = "unknown" /\ IsBuiltin(last.entry)) => ~last.spawned
        /\ (family = "unknown" /\ CreatedByAdd(last.entry)) => last.spawned

----------------------------------------------------------------------------
(* The front end alone, on a file only this program has written *)

\* files the program itself leaves behind
FrontEndFiles ==
    {Missing, Json(<<>>), Json(<<Written("a")>>), Json(<<Written("b")>>),
     Json(<<Written("a"), Written("b")>>), Json(<<Written("b"), Written("a")>>)}

InitFrontEnd ==
    /\ file \in FrontEndFiles
    /\ commands = NewRegistry(file)
    /\ alive = TRUE
    /\ last = Call("init", None, NoEntry, NoResult(file), file)
    /\ os = HostOsRelease
    /\ family = DetectFamily(os)
    /\ procs = NoProcs

\* AutomateCM.add_custom with Ctrl-C pressed while save_custom writes:
\* KeyboardInterrupt is no Exception, so save_custom's handler lets it through
\* (the with block closes the file as it is); add_custom's
\* `except KeyboardInterrupt` prints "Cancelled" and returns to the menu
\* without reload
UiAddInterrupted ==
    \E alias \in UiAliasInputs, name \in UiNameInputs, desc \in UiDescInputs,
       cmd \in UiCmdInputs, root \in RootInputs, io \in Crashes :
        LET r == ConfigAdd(file, alias, name, desc, cmd, root, io)
        IN  /\ alive
            /\ ~UiRefuses(alias, name, desc, cmd)
            /\ AddSaves(file, alias)
            /\ Len(LoadCustom(r.file)) <= MaxFile
            /\ file' = r.file
            /\ last' = Call("ui_add_interrupted", alias,
                            NewCommand(alias, name, desc, cmd, root), r, file)
            /\ UNCHANGED <<commands, alive, host>>

\* AutomateCM.delete_custom with Ctrl-C pressed while save_custom writes: the
\* bare `except:` prints "Invalid" and returns to the menu without reload
UiDeleteInterrupted ==
    \E idx \in 0..(MaxSuffix - 1), io \in Crashes :
        LET customs == Customs(commands)
        IN  /\ alive
            /\ UiPicks(customs, idx, TRUE)
            /\ RemoveSaves(file, customs[idx + 1].alias)
            /\ file' = ConfigRemove(file, customs[idx + 1].alias, io).file
            /\ last' = Call("ui_delete_interrupted", customs[idx + 1].alias, NoEntry,
                            ConfigRemove(file, customs[idx + 1].alias, io), file)
            /\ UNCHANGED <<commands, alive, host>>

NextFrontEnd ==
    \/ UiAddCustom
    \/ UiDeleteCustom
    \/ UiAddInterrupted
    \/ UiDeleteInterrupted
    \/ Start

SpecFrontEnd == InitFrontEnd /\ [][NextFrontEnd]_vars

\* C19: whenever the menu is displayed, the registry's entries after the ten
\* built-ins are the sequence load_custom returns for the file.
C19_MenuShowsPersisted ==
    alive => commands = Builtins \o LoadCustom(file)

----------------------------------------------------------------------------
(* Two processes calling add_custom / remove_custom on the same file *)

\* the processes
Procs == {1, 2}

\* a process that has not called yet
IdleProc == [pc |-> "idle", op |-> None, alias |-> None, loaded |-> <<>>,
             tosave |-> <<>>, ret |-> None]

\* files the two processes start on
RaceFiles == {Missing, Json(<<Written("a")>>), Json(<<Written("a"), Written("b")>>)}

\* a file whose text is that of objs with its beginning overwritten by a
\* shorter text: as long as before, and nothing json.load accepts
Torn(objs) == [kind |-> "garbage", data |-> objs]

\* the length of the file's text, measured in records: with aliases, names and
\* command texts of equal length, json.dump's text grows with the number of
\* records and two lists of the same number of records give texts of the same
\* length
Size(f) == Len(f.data)

\* open(config_file, 'w'): the file exists and is empty
Truncated == Garbage

\* json.dump and close on a descriptor opened with 'w': the text goes to
\* offset 0 of the file as it is now; what another process wrote beyond the end
\* of this text stays
Overlay(f, data) == IF Len(data) >= Size(f) THEN Json(data) ELSE Torn(f.data)

InitRace ==
    /\ file \in RaceFiles
    /\ commands = <<>>
    /\ alive = TRUE
    /\ last = Call("init", None, NoEntry, NoResult(file), file)
    /\ os = HostOsRelease
    /\ family = DetectFamily(os)
    /\ procs = [p \in Procs |-> IdleProc]

\* process p enters add_custom(alias, ...) or remove_custom(alias)
RaceCall(p) ==
    \E op \in {"add", "remove"}, alias \in AliasInputs :
        /\ procs[p].pc = "idle"
        /\ procs' = [procs EXCEPT ![p] = [IdleProc EXCEPT !.pc = "called", !.op = op,
                                                         !.alias = alias]]
        /\ UNCHANGED <<file, commands, alive, last, os, family>>

\* commands = self.load_custom()
RaceLoad(p) ==
    /\ procs[p].pc = "called"
    /\ procs' = [procs EXCEPT ![p].pc = "loaded", ![p].loaded = LoadCustom(file)]
    /\ UNCHANGED <<file, commands, alive, last, os, family>>

\* the test on the loaded list: return False, or build the list to save
RaceCheck(p) ==
    LET me == procs[p]
        filtered == WithoutAlias(me.loaded, me.alias)
        fails == IF me.op = "add" THEN AliasExists(me.loaded, me.alias)
                 ELSE NothingRemoved(me.loaded, filtered)
        list == IF me.op = "add"
                THEN me.loaded \o <<NewCommand(me.alias, "n", "d", "echo", FALSE)>>
                ELSE filtered
    IN  /\ me.pc = "loaded"
        /\ procs' = [procs EXCEPT ![p] =
                        IF fails THEN [me EXCEPT !.pc = "returned", !.ret = "False"]
                        ELSE [me EXCEPT !.pc = "saving", !.tosave = list]]
        /\ UNCHANGED <<file, commands, alive, last, os, family>>

\* save_custom: open(self.config_file, 'w')
RaceOpen(p) ==
    /\ procs[p].pc = "saving"
    /\ file' = Truncated
    /\ procs' = [procs EXCEPT ![p].pc = "opened"]
    /\ UNCHANGED <<commands, alive, last, os, family>>

\* save_custom: json.dump and the close of the with block; return True
RaceWrite(p) ==
    /\ procs[p].pc = "opened"
    /\ file' = Overlay(file, SaveData(procs[p].tosave))
    /\ procs' = [procs EXCEPT ![p].pc = "returned", ![p].ret = "True"]
    /\ last' = [op |-> "write", alias |-> procs[p].alias, entry |-> NoEntry, io |-> "ok",
                ret |-> "True", before |-> file, proc |-> p,
                written |-> Json(SaveData(procs[p].tosave))]
    /\ UNCHANGED <<commands, alive, os, family>>

NextRace ==
    \E p \in Procs :
        \/ RaceCall(p)
        \/ RaceLoad(p)
        \/ RaceCheck(p)
        \/ RaceOpen(p)
        \/ RaceWrite(p)

SpecRace == InitRace /\ [][NextRace]_vars

\* both calls have returned
BothReturned == \A p \in Procs : procs[p].pc = "returned"

\* C20: with two processes interleaving their calls, the persisted set has
\* pairwise distinct aliases in every state, and once both calls have returned
\* it is the set written by the process that saved last.
C20_DistinctAndLastWriterWins ==
    /\ DistinctAliases(LoadCustom(file))
    /\ (BothReturned /\ last.op = "write") => LoadCustom(file) = LoadCustom(last.written)

====
